---- MODULE Spec2Model ----
(***************************************************************************)
(* Model of src/app.py: the Streamlit script that ingests Rithmic order    *)
(* exports (load_and_clean_data), writes a snapshot of the cleaned table,  *)
(* filters it by the selected symbols and computes the metrics block.      *)
(*                                                                         *)
(* Values.  A CSV cell is a string; the empty string is pandas' NaN:       *)
(* read_csv reads an empty cell as NaN, concat fills absent columns with   *)
(* NaN.  A coerced (nullable) value is a tuple: <<>> is NaN/NaT, <<v>> is  *)
(* the value v.  Times are seconds of the day, prices and P&L are          *)
(* integers.                                                               *)
(*                                                                         *)
(* Spec is a session of the script: uploads, reruns and the snapshot       *)
(* store.  NormSpec applies load_and_clean_data to every bounded upload,   *)
(* MetricsSpec the metrics block to every bounded table of trades.         *)
(***************************************************************************)
EXTENDS Integers, Sequences, FiniteSets, TLC

\* ------------------------------------------------------------------ bounds
MaxFiles == 2     \* files in one upload
MaxRows == 3      \* data rows over all files of one upload
MaxTrades == 3    \* trades of a sequence handed to the metrics block
MaxClock == 4     \* ticks the wall clock may advance in one session

\* ------------------------------------------------------------ input format
\* The eight columns the script projects (lines 112-114) and the one it
\* filters on (line 111).
ProjectedColumns ==
    {"Account", "Buy/Sell", "Symbol", "Avg Fill Price", "Qty To Fill",
     "Update Time (CST)", "Commission Fill Rate", "Closed Profit/Loss"}

StatusColumn == "Status"

AllColumns == ProjectedColumns \cup {StatusColumn}

NaN == ""

\* Text that pd.to_numeric parses, with its value; any other text is coerced.
NumericText ==
    ("-2" :> -2) @@ ("-1" :> -1) @@ ("0" :> 0) @@ ("1" :> 1) @@ ("2" :> 2)
    @@ ("4500" :> 4500)

\* Text that pd.to_datetime parses, with its value (seconds of the day).
TimeText == ("09:30:00" :> 34200) @@ ("09:30:01" :> 34201)

to_numeric(cell) ==
    IF cell \in DOMAIN NumericText THEN <<NumericText[cell]>> ELSE <<>>

to_datetime(cell) ==
    IF cell \in DOMAIN TimeText THEN <<TimeText[cell]>> ELSE <<>>

\* Series.map({'B': 'Buy', 'S': 'Sell'}): a key outside the dict maps to NaN.
SideMap(cell) ==
    IF cell = "B" THEN <<"Buy">> ELSE IF cell = "S" THEN <<"Sell">> ELSE <<>>

fillna0(v) == IF v = <<>> THEN <<0>> ELSE v

isna(v) == v = <<>>

\* --------------------------------------------------------------- the files
Row(status, buysell, symbol, price, time, pnl) ==
    [c \in AllColumns |->
        CASE c = "Account" -> "ACC1"
          [] c = "Buy/Sell" -> buysell
          [] c = "Symbol" -> symbol
          [] c = "Avg Fill Price" -> price
          [] c = "Qty To Fill" -> "1"
          [] c = "Update Time (CST)" -> time
          [] c = "Commission Fill Rate" -> NaN
          [] c = "Closed Profit/Loss" -> pnl
          [] c = "Status" -> status]

\* A file is the lines of an export: whether one of them holds the marker
\* 'Completed Orders', the header that follows it, and the data rows to the
\* end of the file.  A data row holds cells for the header's columns only
\* (extract reads it through the header).  Every file with the marker has a
\* header line after it; read_csv with names= reads no data rows as a table
\* of no rows with the header's columns.
File(section, header, rows) ==
    [section |-> section, header |-> header, rows |-> rows]

NoSectionFile == File(FALSE, {}, <<>>)

\* Headers of the files: complete, or lacking one column.
SessionHeaders == {AllColumns, AllColumns \ {"Closed Profit/Loss"}}

NormHeaders == {AllColumns, AllColumns \ {"Avg Fill Price"}}

SeqUpTo(S, n) == UNION {[1..k -> S] : k \in 0..n}

FilesOver(rowset, headers, n) ==
    {NoSectionFile} \cup
    {File(TRUE, h, rs) : h \in headers, rs \in SeqUpTo(rowset, n)}

FileKinds(headers) ==
    {[section |-> FALSE, header |-> {}]}
    \cup {[section |-> TRUE, header |-> h] : h \in headers}

\* The file list that holds the rows rs, file f ending after row cut[f] and
\* being of kind[f].
Split(rs, cut, kind) ==
    [f \in DOMAIN kind |->
        File(kind[f].section, kind[f].header,
             SubSeq(rs, (IF f = 1 THEN 0 ELSE cut[f - 1]) + 1, cut[f]))]

\* cut and kind describe a file list over rs: the cuts ascend to the last
\* row, and a file without the section has no data rows.
IsSplit(rs, cut, kind) ==
    /\ cut[Len(cut)] = Len(rs)
    /\ \A f \in DOMAIN cut :
          /\ (IF f = 1 THEN 0 ELSE cut[f - 1]) <= cut[f]
          /\ ~kind[f].section => cut[f] = (IF f = 1 THEN 0 ELSE cut[f - 1])

\* Rows of the normalisation runs: two usable rows (equal rows of two places
\* tie on the timestamp) and one row for each way a row is unusable.
RawRows ==
    {Row("Filled", "B", "ES", "4500", "09:30:00", "1"),
     Row("Filled", "S", "ES", "4500", "09:30:01", "1"),
     Row("Cancelled", "B", "ES", "4500", "09:30:00", "1"),
     Row("Filled", "X", "ES", "4500", "09:30:00", "1"),
     Row("Filled", "B", "ES", "n/a", "09:30:00", "1"),
     Row("Filled", "B", "ES", "4500", "n/a", "1")}

\* ------------------------------------------------------ load_and_clean_data
\* A DataFrame: its columns and its rows, each row its index label and its
\* cells.
DataFrame(columns, rows) == [columns |-> columns, rows |-> rows]

extract_completed_orders(file) ==
    IF ~file.section
    THEN DataFrame({}, <<>>)
    ELSE DataFrame(file.header,
                   [i \in 1..Len(file.rows) |->
                       [c \in file.header |-> file.rows[i][c]]])

RECURSIVE ConcatRows(_, _)
ConcatRows(dfs, columns) ==
    IF dfs = <<>> THEN <<>>
    ELSE LET df == Head(dfs)
         IN [i \in 1..Len(df.rows) |->
                [c \in columns |->
                    IF c \in df.columns THEN df.rows[i][c] ELSE NaN]]
            \o ConcatRows(Tail(dfs), columns)

\* concat as join='inner' would have it: only the columns every table has.
concat_inner(dfs) ==
    LET columns == {c \in AllColumns : \A f \in 1..Len(dfs) : c \in dfs[f].columns}
        rows == ConcatRows(dfs, columns)
    IN DataFrame(columns,
                 [i \in 1..Len(rows) |-> [index |-> i - 1, cells |-> rows[i]]])

\* pd.concat(dfs, ignore_index=True): the union of the columns, the rows in
\* file order then row order, an absent cell NaN, the index 0..n-1.
concat(dfs) ==
    LET columns == UNION {dfs[f].columns : f \in 1..Len(dfs)}
        rows == ConcatRows(dfs, columns)
    IN DataFrame(columns,
                 [i \in 1..Len(rows) |-> [index |-> i - 1, cells |-> rows[i]]])

\* Lines 112-121: projection, renaming and the coercions.  origin is the
\* index label the row got in concat, i.e. its place in the input.
Coerce(r) ==
    [origin |-> r.index,
     account |-> r.cells["Account"],
     side |-> SideMap(r.cells["Buy/Sell"]),
     symbol |-> r.cells["Symbol"],
     price |-> to_numeric(r.cells["Avg Fill Price"]),
     quantity |-> to_numeric(r.cells["Qty To Fill"]),
     time |-> to_datetime(r.cells["Update Time (CST)"]),
     commission |-> fillna0(to_numeric(r.cells["Commission Fill Rate"])),
     pnl |-> to_numeric(r.cells["Closed Profit/Loss"])]

IsFilled(r) == r.cells[StatusColumn] = "Filled"

\* dropna without '方向' in its subset.
Complete_without_side(t) == ~isna(t.time) /\ ~isna(t.price)

\* Line 122: the row has none of 时间, 价格, 方向 missing.
Complete(t) == ~isna(t.time) /\ ~isna(t.price) /\ ~isna(t.side)

dropna(rows) == SelectSeq(rows, Complete)

RECURSIVE SortedOrders(_, _)
SortedOrders(rows, I) ==
    IF I = {} THEN {<<>>}
    ELSE LET least == {i \in I : \A j \in I : rows[i].time[1] <= rows[j].time[1]}
         IN UNION {{<<rows[i]>> \o rest : rest \in SortedOrders(rows, I \ {i})}
                   : i \in least}

\* sort_values('时间') with the default kind='quicksort': numpy's introsort,
\* which is not stable, so rows of equal time come out in any order.
sort_values(rows) == SortedOrders(rows, 1..Len(rows))

\* The KeyError of line 111 or 112 names the columns the concatenated table
\* lacks (and no file).
KeyError(columns) ==
    [ok |-> FALSE, error |-> "KeyError", columns |-> columns, df |-> <<>>]

Loaded(df) == [ok |-> TRUE, error |-> "", columns |-> {}, df |-> df]

\* The results load_and_clean_data(files) can return or raise.
load_and_clean_data(files) ==
    LET dfs == [f \in 1..Len(files) |-> extract_completed_orders(files[f])]
        df_all == concat(dfs)
    IN IF StatusColumn \notin df_all.columns
       THEN {KeyError({StatusColumn})}
       ELSE IF ~(ProjectedColumns \subseteq df_all.columns)
       THEN {KeyError(ProjectedColumns \ df_all.columns)}
       ELSE LET filled == SelectSeq(df_all.rows, IsFilled)
                coerced == [i \in 1..Len(filled) |-> Coerce(filled[i])]
            IN {Loaded(s) : s \in sort_values(dropna(coerced))}

\* ------------------------------------------------- the script after the load
\* strftime('%Y%m%d_%H%M%S'): the wall clock, counted in ticks of a fraction
\* of a second, cut to the second it lies in.
TicksPerSecond == 2   \* the resolution of the model's clock

now_str(clock) == clock \div TicksPerSecond

\* to_csv(os.path.join(SNAPSHOT_DIR, name)): the file of that name is
\* created, or replaced when it exists.
to_csv(store, name, df) == (name :> df) @@ store

all_symbols(df) == {df[i].symbol : i \in 1..Len(df)}

\* Line 133: df_trades[df_trades['品种'].isin(selected_symbols)].
isin(df, selected) ==
    LET Selected(t) == t.symbol \in selected IN SelectSeq(df, Selected)

\* --- the series of the metrics block: sequences of nullable integers
Present(s) == {i \in 1..Len(s) : ~isna(s[i])}

RECURSIVE SumOver(_, _)
SumOver(s, I) ==
    IF I = {} THEN 0
    ELSE LET i == CHOOSE x \in I : TRUE IN s[i][1] + SumOver(s, I \ {i})

Maximum(S) == CHOOSE x \in S : \A y \in S : y <= x

Minimum(S) == CHOOSE x \in S : \A y \in S : x <= y

\* Series.cumsum() (skipna=True): NaN where the value is NaN, the sum of the
\* values present so far elsewhere.
cumsum(s) ==
    [i \in 1..Len(s) |->
        IF isna(s[i]) THEN <<>>
        ELSE <<SumOver(s, {j \in Present(s) : j <= i})>>]

\* Series.cummax() (skipna=True).
cummax(s) ==
    [i \in 1..Len(s) |->
        IF isna(s[i]) THEN <<>>
        ELSE <<Maximum({s[j][1] : j \in {k \in Present(s) : k <= i}})>>]

\* a - b, elementwise: NaN where either is NaN.
Minus(a, b) ==
    [i \in 1..Len(a) |->
        IF isna(a[i]) \/ isna(b[i]) THEN <<>> ELSE <<a[i][1] - b[i][1]>>]

\* Series.min() (skipna=True): NaN when no value is present.
min(s) ==
    IF Present(s) = {} THEN <<>> ELSE <<Minimum({s[i][1] : i \in Present(s)})>>

pnl_of(df) == [i \in 1..Len(df) |-> df[i].pnl]

\* Line 135: the column 累计盈亏.
cumulative_pnl(df) == cumsum(pnl_of(df))

\* Line 148.
max_drawdown(df) ==
    min(Minus(cumulative_pnl(df), cummax(cumulative_pnl(df))))

\* Series.std() (ddof=1, skipna=True) is NaN for fewer than two values
\* present, and else sqrt(SquareDev / (n * (n - 1))).
SquareDev(s) ==
    LET n == Cardinality(Present(s))
        total == SumOver(s, Present(s))
        squares == SumOver([i \in 1..Len(s) |->
                               IF isna(s[i]) THEN <<>> ELSE <<s[i][1] * s[i][1]>>],
                           Present(s))
    IN n * squares - total * total

std_is_nan(s) == Cardinality(Present(s)) <= 1

std_is_zero(s) == ~std_is_nan(s) /\ SquareDev(s) = 0

Sign(x) == IF x > 0 THEN 1 ELSE IF x < 0 THEN -1 ELSE 0

NaNValue == [nan |-> TRUE, sign |-> 0, num |-> 0, den |-> 1]

\* A real number by its sign and its square num / den.
RootValue(sign, num, den) ==
    IF sign = 0 THEN [nan |-> FALSE, sign |-> 0, num |-> 0, den |-> 1]
    ELSE [nan |-> FALSE, sign |-> sign, num |-> num, den |-> den]

\* Line 145: mean / std * sqrt(252) if std != 0 else 0.  NaN != 0 is True,
\* so a NaN std takes the first branch and the quotient is NaN.
sharpe(df) ==
    LET s == pnl_of(df)
        n == Cardinality(Present(s))
        total == SumOver(s, Present(s))
    IN IF std_is_zero(s) THEN RootValue(0, 0, 1)
       ELSE IF std_is_nan(s) THEN NaNValue
       ELSE RootValue(Sign(total), 252 * total * total * (n - 1), n * SquareDev(s))

Ratio(num, den) == [nan |-> FALSE, num |-> num, den |-> den]

NaNRatio == [nan |-> TRUE, num |-> 0, den |-> 1]

Wins(s) == {i \in Present(s) : s[i][1] > 0}

Losses(s) == {i \in Present(s) : s[i][1] < 0}

\* Line 146: (盈亏 > 0).mean(); NaN > 0 is False; the mean of no rows is NaN.
winrate(df) ==
    LET s == pnl_of(df)
    IN IF Len(s) = 0 THEN NaNRatio ELSE Ratio(Cardinality(Wins(s)), Len(s))

\* Line 147: mean of the wins / -mean of the losses, NaN without losses (and,
\* the mean of no wins being NaN, without wins).
profit_ratio(df) ==
    LET s == pnl_of(df)
    IN IF Losses(s) = {} \/ Wins(s) = {} THEN NaNRatio
       ELSE Ratio(SumOver(s, Wins(s)) * Cardinality(Losses(s)),
                  (0 - SumOver(s, Losses(s))) * Cardinality(Wins(s)))

\* Line 149: 1 if x > 0 else -1; NaN > 0 is False.
results(df) ==
    [i \in 1..Len(df) |->
        IF ~isna(df[i].pnl) /\ df[i].pnl[1] > 0 THEN 1 ELSE -1]

\* Line 150: results.ne(results.shift()).cumsum(): the number of the run a
\* trade lies in (the first trade differs from the NaN shifted in).
streaks(res) ==
    [i \in 1..Len(res) |->
        Cardinality({j \in 1..i : j = 1 \/ res[j] # res[j - 1]})]

\* Lines 151-152: results[results > 0].groupby(streaks).size().max(), and
\* the same for results < 0; the max of no group is NaN.
max_streak(res, sign) ==
    LET run == streaks(res)
        kept == {i \in 1..Len(res) : Sign(res[i]) = sign}
        sizes == {Cardinality({j \in kept : run[j] = run[i]}) : i \in kept}
    IN IF kept = {} THEN <<>> ELSE <<Maximum(sizes)>>

max_win_streak(df) == max_streak(results(df), 1)

max_loss_streak(df) == max_streak(results(df), -1)

\* Lines 135 and 145-158 on the selected trades: the series, the statistics,
\* and whether the page shows them.
Metrics(df) ==
    [shown |-> TRUE,
     cumulative |-> cumulative_pnl(df),
     sharpe |-> sharpe(df),
     winrate |-> winrate(df),
     profit_ratio |-> profit_ratio(df),
     max_drawdown |-> max_drawdown(df),
     max_win_streak |-> max_win_streak(df),
     max_loss_streak |-> max_loss_streak(df)]

NoMetrics == [shown |-> FALSE, cumulative |-> <<>>, sharpe |-> NaNValue, winrate |-> NaNRatio,
              profit_ratio |-> NaNRatio, max_drawdown |-> <<>>,
              max_win_streak |-> <<>>, max_loss_streak |-> <<>>]

\* ------------------------------------------------------------------- state
VARIABLES
    uploaded_files,   \* the files of the upload widget
    cache,            \* st.cache_data: the tables of the file lists loaded
    outcome,          \* "idle", or how the last run of the script ended
    df_trades,        \* the table load_and_clean_data returned to the last run
    selected_symbols, \* the value of the multiselect widget
    df_selected,      \* df_trades as line 133 rebinds it
    metrics,          \* the series and statistics of lines 135-152
    snapshots,        \* SNAPSHOT_DIR: file name -> the table written
    clock,            \* the wall clock, in ticks
    ingested          \* history: the tables the loads that ran returned

vars == <<uploaded_files, cache, outcome, df_trades, selected_symbols,
          df_selected, metrics, snapshots, clock, ingested>>

Idle == [ok |-> FALSE, error |-> "idle", columns |-> {}]

Outcome(r) == [ok |-> r.ok, error |-> r.error, columns |-> r.columns]

EmptyStore == [n \in {} |-> <<>>]

\* -------------------------------------------------- normalisation, alone
NormInit ==
    /\ \E rs \in SeqUpTo(RawRows, MaxRows) : \E k \in 1..MaxFiles :
          \E cut \in [1..k -> 0..Len(rs)] : \E kind \in [1..k -> FileKinds(NormHeaders)] :
             /\ IsSplit(rs, cut, kind)
             /\ uploaded_files = Split(rs, cut, kind)
    /\ cache = EmptyStore
    /\ outcome = Idle
    /\ df_trades = <<>>
    /\ selected_symbols = {}
    /\ df_selected = <<>>
    /\ metrics = NoMetrics
    /\ snapshots = EmptyStore
    /\ clock = 0
    /\ ingested = <<>>

Load ==
    /\ outcome = Idle
    /\ \E r \in load_and_clean_data(uploaded_files) :
          /\ outcome' = Outcome(r)
          /\ df_trades' = r.df
    /\ UNCHANGED <<uploaded_files, cache, selected_symbols, df_selected,
                   metrics, snapshots, clock, ingested>>

NormNext == Load

NormSpec == NormInit /\ [][NormNext]_vars

\* ------------------------------------------------------- the metrics, alone
PnlValues == {<<>>, <<-2>>, <<-1>>, <<0>>, <<1>>, <<2>>}

\* A selected table: trades in timestamp order, one a second.
Trade(i, pnl) ==
    [origin |-> i - 1, account |-> "ACC1", side |-> <<"Buy">>, symbol |-> "ES",
     price |-> <<4500>>, quantity |-> <<1>>, time |-> <<34200 + i>>,
     commission |-> <<0>>, pnl |-> pnl]

TradeTables ==
    {[i \in 1..Len(p) |-> Trade(i, p[i])] : p \in SeqUpTo(PnlValues, MaxTrades)}

MetricsInit ==
    /\ uploaded_files = <<>>
    /\ cache = EmptyStore
    /\ outcome = Outcome(Loaded(<<>>))
    /\ df_trades \in TradeTables
    /\ selected_symbols = all_symbols(df_trades)
    /\ df_selected = <<>>
    /\ metrics = NoMetrics
    /\ snapshots = EmptyStore
    /\ clock = 0
    /\ ingested = <<>>

\* Lines 133-152 on df_trades.
Compute ==
    /\ ~metrics.shown
    /\ df_selected' = isin(df_trades, selected_symbols)
    /\ metrics' = Metrics(df_selected')
    /\ UNCHANGED <<uploaded_files, cache, outcome, df_trades, selected_symbols,
                   snapshots, clock, ingested>>

MetricsNext == Compute

MetricsSpec == MetricsInit /\ [][MetricsNext]_vars

\* ------------------------------------------------------------- the session
\* Rows of the session's files: filled rows of two symbols with a gain, a
\* loss or no P&L, and a row that is not filled.
SessionRows ==
    {Row("Filled", "B", sym, "4500", "09:30:00", pnl) :
        sym \in {"ES", "NQ"}, pnl \in {"1", "-1", NaN}}
    \cup {Row("Cancelled", "B", "ES", "4500", "09:30:00", "1")}

\* A file of the session has at most one data row.
SessionFiles == FilesOver(SessionRows, SessionHeaders, 1)

Init ==
    /\ uploaded_files = <<>>
    /\ cache = EmptyStore
    /\ outcome = Idle
    /\ df_trades = <<>>
    /\ selected_symbols = {}
    /\ df_selected = <<>>
    /\ metrics = NoMetrics
    /\ snapshots = EmptyStore
    /\ clock = 0
    /\ ingested = <<>>

\* What line 126 gets: the cached table of these files, or a fresh load.
CachedLoad(files) ==
    IF files \in DOMAIN cache THEN {Loaded(cache[files])}
    ELSE load_and_clean_data(files)

\* The multiselect of line 132: a widget of the same options keeps its value
\* over a rerun, a new one starts from default=all_symbols.
Multiselect(df, choice) ==
    IF choice # <<>> THEN choice[1]
    ELSE IF outcome.ok /\ all_symbols(df) = all_symbols(df_trades)
    THEN selected_symbols
    ELSE all_symbols(df)

\* One run of the script (lines 92-158) on files; choice is <<>>, or <<s>>
\* when the user has just set the multiselect to s.  An exception of the
\* load ends the run at line 126.
Script(files, choice) ==
    /\ clock < MaxClock
    /\ clock' = clock + 1
    /\ uploaded_files' = files
    /\ \E r \in CachedLoad(files) :
          /\ outcome' = Outcome(r)
          /\ df_trades' = r.df
          /\ IF r.ok
             THEN /\ cache' = (files :> r.df) @@ cache
                  /\ ingested' = IF files \in DOMAIN cache THEN ingested
                                 ELSE Append(ingested, r.df)
                  /\ snapshots' = to_csv(snapshots, now_str(clock), r.df)
                  /\ selected_symbols' = Multiselect(r.df, choice)
                  /\ df_selected' = isin(r.df, selected_symbols')
                  /\ metrics' = Metrics(df_selected')
             ELSE /\ df_selected' = <<>>
                  /\ metrics' = NoMetrics
                  /\ UNCHANGED <<cache, ingested, snapshots, selected_symbols>>

\* The user adds a file to the uploader.
Upload(f) ==
    /\ Len(uploaded_files) < MaxFiles
    /\ Script(Append(uploaded_files, f), <<>>)

\* The user changes the selection of symbols.
Select(s) ==
    /\ outcome.ok
    /\ s # selected_symbols
    /\ Script(uploaded_files, <<s>>)

\* Time passes.
Tick ==
    /\ clock < MaxClock
    /\ clock' = clock + 1
    /\ UNCHANGED <<uploaded_files, cache, outcome, df_trades, selected_symbols,
                   df_selected, metrics, snapshots, ingested>>

Next ==
    \/ \E f \in SessionFiles : Upload(f)
    \/ \E s \in SUBSET all_symbols(df_trades) : Select(s)
    \/ Tick

Spec == Init /\ [][Next]_vars

\* =================================================================== claims
\* What the input says, read off the files and not off the tables.
HasSection(files) == {f \in 1..Len(files) : files[f].section}

Places(files) ==
    UNION {{<<f, i>> : i \in 1..Len(files[f].rows)} : f \in HasSection(files)}

RECURSIVE RowsBefore(_, _)
RowsBefore(files, f) ==
    IF f = 1 THEN 0
    ELSE RowsBefore(files, f - 1)
         + (IF files[f - 1].section THEN Len(files[f - 1].rows) ELSE 0)

\* The place of a row in the input: file order, then row order.
OriginOf(files, p) == RowsBefore(files, p[1]) + p[2] - 1

CellAt(files, p, c) ==
    IF c \in files[p[1]].header THEN files[p[1]].rows[p[2]][c] ELSE NaN

Usable(files, p) ==
    /\ CellAt(files, p, "Status") = "Filled"
    /\ CellAt(files, p, "Buy/Sell") \in {"B", "S"}
    /\ CellAt(files, p, "Update Time (CST)") \in DOMAIN TimeText
    /\ CellAt(files, p, "Avg Fill Price") \in DOMAIN NumericText

UsablePlaces(files) == {p \in Places(files) : Usable(files, p)}

Ran == outcome # Idle

\* Ascending timestamps: the half of C1 the unstable sort keeps.
AscendingTimestamps ==
    outcome.ok =>
        \A i \in 1..Len(df_trades) : \A j \in 1..Len(df_trades) :
            i < j => df_trades[i].time[1] <= df_trades[j].time[1]

\* C1: the returned sequence is in ascending timestamp order and records of
\* equal timestamp are in input order (file order, then row order).
C1_SortedStable ==
    outcome.ok =>
        \A i \in 1..Len(df_trades) : \A j \in 1..Len(df_trades) :
            i < j =>
                \/ df_trades[i].time[1] < df_trades[j].time[1]
                \/ /\ df_trades[i].time[1] = df_trades[j].time[1]
                   /\ df_trades[i].origin < df_trades[j].origin

\* C2: every returned record is an input row that is Filled and has a
\* timestamp, a price and a side (Buy or Sell), and every such input row is
\* returned.
C2_FilterInvariant ==
    outcome.ok =>
        /\ \A k \in 1..Len(df_trades) :
              /\ \E p \in UsablePlaces(uploaded_files) :
                    OriginOf(uploaded_files, p) = df_trades[k].origin
              /\ ~isna(df_trades[k].time)
              /\ ~isna(df_trades[k].price)
              /\ df_trades[k].side \in {<<"Buy">>, <<"Sell">>}
        /\ \A p \in UsablePlaces(uploaded_files) :
              \E k \in 1..Len(df_trades) :
                 df_trades[k].origin = OriginOf(uploaded_files, p)

\* A run that kept two rows and dropped a filled row of side code X.
C2_Witness ==
    /\ outcome.ok
    /\ Len(df_trades) = 2
    /\ \E p \in Places(uploaded_files) :
          /\ CellAt(uploaded_files, p, "Status") = "Filled"
          /\ CellAt(uploaded_files, p, "Buy/Sell") = "X"

Others(files) == SelectSeq(files, LAMBDA f : f.section)

Lacks(files, f) == AllColumns \ files[f].header

Offending(files) == {f \in HasSection(files) : Lacks(files, f) # {}}

\* A step that is a run of the script: an upload changes the file list, a
\* selection the selected symbols.
ScriptRan ==
    uploaded_files' # uploaded_files \/ selected_symbols' # selected_symbols

\* C3: a run on files one of which lacks a required column fails, the failure
\* names the column, and the run leaves the snapshot store as it was.  (The
\* claim also has the failure name the file; no outcome of the script does.)
C3_SchemaMismatch ==
    [][(ScriptRan /\ Offending(uploaded_files') # {}) =>
          /\ ~outcome'.ok
          /\ \A f \in Offending(uploaded_files') :
                Lacks(uploaded_files', f) \subseteq outcome'.columns
          /\ snapshots' = snapshots]_vars

\* C5: a run on files that yield no usable record does not crash: it returns
\* the empty sequence and goes on to show the statistics of it.
C5_EmptyResultSet ==
    (Ran /\ UsablePlaces(uploaded_files) = {}) =>
        outcome.ok /\ df_trades = <<>> /\ metrics.shown

\* C9: every load that ran has its own snapshot, equal to the table it
\* returned, and a run never replaces or removes a snapshot written earlier.
C9_AppendOnly ==
    [][/\ \A n \in DOMAIN snapshots :
             n \in DOMAIN snapshots' /\ snapshots'[n] = snapshots[n]
       /\ Cardinality(DOMAIN snapshots') = Len(ingested')
       /\ \A k \in 1..Len(ingested') :
             \E n \in DOMAIN snapshots' : snapshots'[n] = ingested'[k]]_vars

\* A failed run writes no snapshot.
FailedRunWritesNothing ==
    [][(ScriptRan /\ ~outcome'.ok) => snapshots' = snapshots]_vars

\* ------------------------------------------------------ the metrics' claims
\* The metrics of df_trades have been computed.
Computed == metrics.shown

N == Len(df_trades)

\* profit_loss with a null counted as 0.
Pnl0(i) == IF isna(df_trades[i].pnl) THEN 0 ELSE df_trades[i].pnl[1]

RECURSIVE PrefixSum(_)
PrefixSum(i) == IF i = 0 THEN 0 ELSE PrefixSum(i - 1) + Pnl0(i)

Peak(i) == Maximum({PrefixSum(j) : j \in 1..i})

Drawdown == Minimum({PrefixSum(i) - Peak(i) : i \in 1..N})

NonDecreasing == \A i \in 1..(N - 1) : PrefixSum(i) <= PrefixSum(i + 1)

Class(i) == IF Pnl0(i) > 0 THEN 1 ELSE -1

\* The length of the longest run of consecutive trades of class c, 0 when
\* there is none.
LongestRun(c) ==
    Maximum({0} \cup {k \in 1..N :
                        \E i \in 1..(N - k + 1) :
                           \A j \in i..(i + k - 1) : Class(j) = c})

NoNulls == \A i \in 1..N : ~isna(df_trades[i].pnl)

Zero == [nan |-> FALSE, sign |-> 0, num |-> 0, den |-> 1]

\* C6: identical profit_loss values, or at most one record, give sharpe 0.
C6_SharpeZeroVariance ==
    (Computed /\ (N <= 1 \/ (NoNulls /\ \A i \in 1..N : Pnl0(i) = Pnl0(1))))
    => metrics.sharpe = Zero

\* Two or more identical values give sharpe 0.
SharpeZeroFromTwo ==
    (Computed /\ N >= 2 /\ NoNulls /\ \A i \in 1..N : Pnl0(i) = Pnl0(1))
    => metrics.sharpe = Zero

\* C7: on a non-empty sequence max_win_streak is the longest run of trades
\* with profit_loss > 0 and max_loss_streak the longest run of the others, 0
\* for a class that does not occur.
C7_Streaks ==
    (Computed /\ N >= 1) =>
        /\ metrics.max_win_streak = <<LongestRun(1)>>
        /\ metrics.max_loss_streak = <<LongestRun(-1)>>

\* The streak of a class that occurs is its longest run; of one that does not,
\* NaN.
StreaksOfClassesPresent ==
    (Computed /\ N >= 1) =>
        /\ metrics.max_win_streak =
              (IF LongestRun(1) = 0 THEN <<>> ELSE <<LongestRun(1)>>)
        /\ metrics.max_loss_streak =
              (IF LongestRun(-1) = 0 THEN <<>> ELSE <<LongestRun(-1)>>)

\* C8: on a non-empty sequence max_drawdown is the least of cumulative_pnl[i]
\* less its running maximum, is <= 0, and is 0 exactly when cumulative_pnl
\* never decreases.
C8_Drawdown ==
    (Computed /\ N >= 1) =>
        /\ metrics.max_drawdown = <<Drawdown>>
        /\ metrics.max_drawdown[1] <= 0
        /\ (metrics.max_drawdown[1] = 0 <=> NonDecreasing)

\* The same on sequences without a null profit_loss.
DrawdownWithoutNulls ==
    (Computed /\ N >= 1 /\ NoNulls) =>
        /\ metrics.max_drawdown = <<Drawdown>>
        /\ metrics.max_drawdown[1] <= 0
        /\ (metrics.max_drawdown[1] = 0 <=> NonDecreasing)

\* C10: cumulative_pnl[i] is the sum of profit_loss[0..i] with a null counted
\* as 0, at every record.
C10_CumulativePnl ==
    Computed =>
        \A i \in 1..N : metrics.cumulative[i] = <<PrefixSum(i)>>

\* The same at the records whose own profit_loss is not null; at the others
\* cumulative_pnl is NaN.
CumulativeWherePresent ==
    Computed =>
        \A i \in 1..N :
           metrics.cumulative[i] =
              (IF isna(df_trades[i].pnl) THEN <<>> ELSE <<PrefixSum(i)>>)

====
